---------------------------- MODULE Spec2Model ----------------------------
(***************************************************************************)
(* A model of src/client.js, the browser client of a two-paddle ball game. *)
(* The client is one event loop: every handler of the file (socket open,   *)
(* message, close; keydown, keyup; the admin buttons; the toast timer; the *)
(* render frame) is one atomic action.                                     *)
(*                                                                         *)
(* Encoding of JavaScript values                                           *)
(*   - a JSON object is a TLA+ function from its property names to values; *)
(*     reading a missing property gives Undef, as in JavaScript;           *)
(*   - JSON null is the string Null;                                       *)
(*   - text typed into an input field is a sequence of one-character       *)
(*     strings, so that String.prototype.trim can be computed;             *)
(*   - ws.send(m) is a call recorded in `sent`; on a socket that is still  *)
(*     CONNECTING the call throws (InvalidStateError) and the rest of the  *)
(*     handler does not run; on a CLOSED socket the call returns normally. *)
(*   - notification texts are the source's without their emoji.            *)
(*                                                                         *)
(* The page's markup is not part of client.js: the model starts with the   *)
(* score labels reading "0", the admin modal and controls hidden, the auth *)
(* block visible and the toast empty and hidden.                           *)
(***************************************************************************)
EXTENDS Naturals, Sequences, FiniteSets, TLC

VARIABLES
    conn,           \* ws.readyState: "connecting", "open" or "closed"
    isAdmin,        \* let isAdmin (line 21)
    side,           \* let side (line 22)
    state,          \* let state (lines 23-26): the GameState object
    sl, sr,         \* textContent of the two score labels
    keys,           \* const keys = new Set() (line 70)
    adminModal,     \* adminModal carries the class "hidden": TRUE when hidden
    adminAuthBlock, \* adminAuthBlock carries the class "hidden"
    adminControls,  \* adminControls carries the class "hidden"
    broadcastMsg,   \* broadcastMsg.value
    toast,          \* [text, show]: toast.textContent and the class "show"
    timers,         \* pending setTimeout callbacks: the ms each has left
    toastAge,       \* ms since the most recent showToast call, capped at ToastMs
    frames,         \* number of draw() calls still scheduled by requestAnimationFrame
    sent,           \* the ws.send calls made by the listener that has just run
    last,           \* the listener that has just run and the event it was given,
                    \* [op |-> "idle"] once the event loop has taken over again
    lastInput       \* the input message of the most recent ws.send of one that
                    \* returned, where the event loop notes it (ReturnNoting)

vars == <<conn, isAdmin, side, state, sl, sr, keys, adminModal, adminAuthBlock,
          adminControls, broadcastMsg, toast, timers, toastAge, frames, sent, last,
          lastInput>>

-----------------------------------------------------------------------------
(* Bounds and program constants *)

\* setTimeout(..., 2000) in showToast
ToastMs == 2000
\* Scores carried by state messages range over 0..MaxScore.
MaxScore == 1
\* Text typed into an input field has at most MaxText characters.
MaxText == 2

Undef == "undefined"
Null == "null"

-----------------------------------------------------------------------------
(* JavaScript helpers *)

\* obj[f], Undef when the property is missing
Get(obj, f) == IF f \in DOMAIN obj THEN obj[f] ELSE Undef

\* obj with obj[f] = v assigned (the property is created when missing)
Put(obj, f, v) == [g \in DOMAIN obj \cup {f} |-> IF g = f THEN v ELSE obj[g]]

\* ToBoolean of a value that is a string, null or undefined
Truthy(v) == v \notin {Undef, Null, ""}

\* String.prototype.toUpperCase on the side names the model uses
toUpperCase(s) ==
    CASE s = "left" -> "LEFT"
      [] s = "right" -> "RIGHT"
      [] s = "spectator" -> "SPECTATOR"
      [] s = "ghost" -> "GHOST"
      [] OTHER -> s

\* String.prototype.trim on a sequence of characters
RECURSIVE trimStart(_)
trimStart(s) == IF s # <<>> /\ Head(s) = " " THEN trimStart(Tail(s)) ELSE s
RECURSIVE trimEnd(_)
trimEnd(s) ==
    IF s # <<>> /\ s[Len(s)] = " " THEN trimEnd(SubSeq(s, 1, Len(s) - 1)) ELSE s
trim(s) == trimEnd(trimStart(s))

\* Number -> DOM text, as the assignment to textContent converts it;
\* undefined (a missing score) becomes the empty string.
textOf(obj, f) == IF f \in DOMAIN obj THEN ToString(obj[f]) ELSE ""


-----------------------------------------------------------------------------
(* Input Mapper: sendInput, lines 91-107 *)

\* keys.has(code)
has(ks, code) == code \in ks

\* intent with the override for the right side left out of the invert branch
intentNoRightInvert(ks, sd, ev) ==
    IF ev = "invert"
    THEN [up |-> IF sd = "left" THEN has(ks, "KeyS")
                 ELSE has(ks, "ArrowDown") \/ has(ks, "KeyS"),
          down |-> IF sd = "left" THEN has(ks, "KeyW")
                   ELSE has(ks, "ArrowUp") \/ has(ks, "KeyW")]
    ELSE [up |-> IF sd = "left" THEN has(ks, "KeyW")
                 ELSE IF sd = "right" THEN has(ks, "ArrowUp")
                 ELSE has(ks, "ArrowUp") \/ has(ks, "KeyW"),
          down |-> IF sd = "left" THEN has(ks, "KeyS")
                   ELSE IF sd = "right" THEN has(ks, "ArrowDown")
                   ELSE has(ks, "ArrowDown") \/ has(ks, "KeyS")]

\* The {up, down} that sendInput computes (lines 92-105) from the key set,
\* the side and state.event: a provisional union mapping, then the override
\* of the assigned side.
intent(ks, sd, ev) ==
    IF ev = "invert"
    THEN LET up0 == has(ks, "ArrowDown") \/ has(ks, "KeyS")
             down0 == has(ks, "ArrowUp") \/ has(ks, "KeyW")
             up1 == IF sd = "left" THEN has(ks, "KeyS") ELSE up0
             down1 == IF sd = "left" THEN has(ks, "KeyW") ELSE down0
         IN  [up |-> IF sd = "right" THEN has(ks, "ArrowDown") ELSE up1,
              down |-> IF sd = "right" THEN has(ks, "ArrowUp") ELSE down1]
    ELSE LET up0 == has(ks, "ArrowUp") \/ has(ks, "KeyW")
             down0 == has(ks, "ArrowDown") \/ has(ks, "KeyS")
             up1 == IF sd = "left" THEN has(ks, "KeyW") ELSE up0
             down1 == IF sd = "left" THEN has(ks, "KeyS") ELSE down0
         IN  [up |-> IF sd = "right" THEN has(ks, "ArrowUp") ELSE up1,
              down |-> IF sd = "right" THEN has(ks, "ArrowDown") ELSE down1]

\* The message sendInput passes to ws.send (line 106)
sendInput(ks) ==
    LET i == intent(ks, side, Get(state, "event"))
    IN  [type |-> "input", up |-> i.up, down |-> i.down]

PauseMsg == [type |-> "pause"]

-----------------------------------------------------------------------------
(* The event loop runs one listener at a time, each to completion. *)

idle == last.op = "idle"

\* The listener has returned (or thrown): the loop waits for the next event.
Return ==
    /\ ~idle
    /\ last' = [op |-> "idle"]
    /\ sent' = <<>>
    /\ UNCHANGED <<conn, isAdmin, side, state, sl, sr, keys, adminModal,
                   adminAuthBlock, adminControls, broadcastMsg, toast, timers,
                   toastAge, frames, lastInput>>

\* The value of lastInput while no input message has been sent
NoInput == [type |-> "none"]

\* Return, noting in lastInput the last input message that the listener
\* passed to a ws.send that returned (line 106), if there is one.
ReturnNoting ==
    LET inputs == {i \in DOMAIN sent : sent[i].type = "input"}
    IN  /\ ~idle
        /\ last' = [op |-> "idle"]
        /\ sent' = <<>>
        /\ lastInput' = IF conn # "connecting" /\ inputs # {}
                        THEN sent[CHOOSE i \in inputs : \A j \in inputs : j <= i]
                        ELSE lastInput
        /\ UNCHANGED <<conn, isAdmin, side, state, sl, sr, keys, adminModal,
                       adminAuthBlock, adminControls, broadcastMsg, toast, timers,
                       toastAge, frames>>

-----------------------------------------------------------------------------
(* Connection: what a handler's ws.send calls come to *)

\* ws.send throws on a socket that is still connecting
sendThrows == conn = "connecting"

\* The calls a handler makes when it means to send msgs in this order: all of
\* them, or only the first when that call throws.
calls(msgs) == IF sendThrows /\ msgs # <<>> THEN <<Head(msgs)>> ELSE msgs

\* The handler is cut short by an exception of ws.send
aborted(msgs) == sendThrows /\ msgs # <<>>

\* The listener that has just run ended in that exception
threw == sendThrows /\ sent # <<>>

-----------------------------------------------------------------------------
(* Notification Surface: showToast, lines 146-150 *)

\* timers holds the time left of every pending callback. The callbacks are all
\* the same function, so callbacks due at the same instant are kept as one.
showToast(msg) ==
    /\ toast' = [text |-> msg, show |-> TRUE]
    /\ timers' = timers \cup {ToastMs}
    /\ toastAge' = 0

noToast == UNCHANGED <<toast, timers, toastAge>>

\* The timer callback of line 149: toast.classList.remove('show')
HideToast ==
    /\ idle
    /\ 0 \in timers
    /\ timers' = timers \ {0}
    /\ toast' = [toast EXCEPT !.show = FALSE]
    /\ sent' = <<>>
    /\ last' = [op |-> "timeout"]
    /\ UNCHANGED <<conn, isAdmin, side, state, sl, sr, keys, adminModal,
                   adminAuthBlock, adminControls, broadcastMsg, toastAge, frames, lastInput>>

\* Time passes: step ms, while no callback is due.
Tick(step) ==
    /\ idle
    /\ timers # {} /\ 0 \notin timers
    /\ timers' = {IF t > step THEN t - step ELSE 0 : t \in timers}
    /\ toastAge' = IF toastAge + step > ToastMs THEN ToastMs ELSE toastAge + step
    /\ UNCHANGED <<conn, isAdmin, side, state, sl, sr, keys, adminModal,
                   adminAuthBlock, adminControls, broadcastMsg, toast, frames,
                   sent, last, lastInput>>

-----------------------------------------------------------------------------
(* Keyboard: lines 70-89, and toggleAdmin, lines 110-113 *)

KeyCodes == {"KeyW", "KeyS", "ArrowUp", "ArrowDown", "KeyP", "Tab"}

\* adminModal.classList.toggle('hidden', show === false)
toggleAdmin(show) == adminModal' = (show = FALSE)

\* keydownSends with sendInput in an else branch of the pause test
keydownSendsElse(code, ks) ==
    IF code = "KeyP" THEN <<PauseMsg>> ELSE <<sendInput(ks)>>

\* keydownSends with the pause key reserved to the two players
keydownSendsPlayers(code, ks) ==
    (IF code = "KeyP" /\ side \in {"left", "right"} THEN <<PauseMsg>> ELSE <<>>)
        \o <<sendInput(ks)>>

\* The ws.send calls the keydown listener means to make for a key other than Tab
keydownSends(code, ks) ==
    (IF code = "KeyP" THEN <<PauseMsg>> ELSE <<>>) \o <<sendInput(ks)>>

\* KeyDown that opens the modal for Tab and goes on to hold the key
KeyDownHoldsTab(code) ==
    /\ idle
    /\ keys' = keys \cup {code}
    /\ sent' = calls(keydownSends(code, keys'))
    /\ last' = [op |-> "keydown", code |-> code, held |-> code \in keys]
    /\ IF code = "Tab" THEN toggleAdmin(TRUE) ELSE UNCHANGED adminModal
    /\ noToast
    /\ UNCHANGED <<conn, isAdmin, side, state, sl, sr, adminAuthBlock,
                   adminControls, broadcastMsg, frames, lastInput>>

\* The keydown listener, lines 71-84
KeyDown(code) ==
    /\ idle
    /\ IF code = "Tab"
       THEN /\ toggleAdmin(TRUE)
            /\ sent' = <<>>
            /\ last' = [op |-> "keydown", code |-> code, held |-> code \in keys]
            /\ UNCHANGED keys
       ELSE /\ keys' = keys \cup {code}
            /\ sent' = calls(keydownSends(code, keys'))
            /\ last' = [op |-> "keydown", code |-> code, held |-> code \in keys]
            /\ UNCHANGED adminModal
    /\ noToast
    /\ UNCHANGED <<conn, isAdmin, side, state, sl, sr, adminAuthBlock,
                   adminControls, broadcastMsg, frames, lastInput>>

\* The keyup listener, lines 86-89
KeyUp(code) ==
    /\ idle
    /\ keys' = keys \ {code}
    /\ sent' = calls(<<sendInput(keys')>>)
    /\ last' = [op |-> "keyup", code |-> code, held |-> code \in keys]
    /\ noToast
    /\ UNCHANGED <<conn, isAdmin, side, state, sl, sr, adminModal, adminAuthBlock,
                   adminControls, broadcastMsg, frames, lastInput>>

-----------------------------------------------------------------------------
(* Connection Manager: lines 28-67 *)

\* The open listener, lines 33-35
Open ==
    /\ idle
    /\ conn = "connecting"
    /\ conn' = "open"
    /\ showToast("Connected to server")
    /\ sent' = <<>>
    /\ last' = [op |-> "open"]
    /\ UNCHANGED <<isAdmin, side, state, sl, sr, keys, adminModal, adminAuthBlock,
                   adminControls, broadcastMsg, frames, lastInput>>

\* Close with a listener that connects again
CloseReconnects ==
    /\ idle
    /\ conn # "closed"
    /\ conn' = "connecting"
    /\ showToast("Disconnected from server")
    /\ sent' = <<>>
    /\ last' = [op |-> "close"]
    /\ UNCHANGED <<isAdmin, side, state, sl, sr, keys, adminModal, adminAuthBlock,
                   adminControls, broadcastMsg, frames, lastInput>>

\* The close listener, lines 65-67; a connection attempt that fails closes too
Close ==
    /\ idle
    /\ conn # "closed"
    /\ conn' = "closed"
    /\ showToast("Disconnected from server")
    /\ sent' = <<>>
    /\ last' = [op |-> "close"]
    /\ UNCHANGED <<isAdmin, side, state, sl, sr, keys, adminModal, adminAuthBlock,
                   adminControls, broadcastMsg, frames, lastInput>>

\* An inbound frame is text that is not JSON, the JSON value null, or a JSON
\* object.
NotJson == [json |-> "invalid"]
JsonNull == [json |-> "null"]
JsonObject(o) == [json |-> "object", obj |-> o]

\* JSON.parse(ev.data) followed by the read of data.type (lines 39-40) throws
\* for text that is not JSON and for null; the catch of line 62 swallows it.
parseThrows(frame) == frame.json # "object"

\* data.type of a frame that parsed to an object
typeOf(frame) == Get(frame.obj, "type")

\* side.toUpperCase() of line 42 throws when side is not a string
upperThrows(sd) == sd = Undef

\* The branch for type "role", lines 40-42
onRole(data) ==
    /\ side' = Get(data, "side")
    /\ IF upperThrows(side')
       THEN noToast
       ELSE showToast("You are: " \o toUpperCase(side'))
    /\ UNCHANGED <<isAdmin, state, sl, sr, adminAuthBlock, adminControls>>

\* onState merging the message into the old snapshot, field by field
onStateMerge(data) ==
    /\ state' = [f \in DOMAIN state \cup DOMAIN data |->
                    IF f \in DOMAIN data THEN data[f] ELSE state[f]]
    /\ sl' = textOf(state', "score_l")
    /\ sr' = textOf(state', "score_r")
    /\ noToast
    /\ UNCHANGED <<isAdmin, side, adminAuthBlock, adminControls>>

\* onState that leaves the right label to a later repaint
onStateLeftLabelOnly(data) ==
    /\ state' = data
    /\ sl' = textOf(state', "score_l")
    /\ UNCHANGED sr
    /\ noToast
    /\ UNCHANGED <<isAdmin, side, adminAuthBlock, adminControls>>

\* onState that carries the event in force over into the new snapshot
onStateKeepsEvent(data) ==
    /\ state' = Put(data, "event", Get(state, "event"))
    /\ sl' = textOf(state', "score_l")
    /\ sr' = textOf(state', "score_r")
    /\ noToast
    /\ UNCHANGED <<isAdmin, side, adminAuthBlock, adminControls>>

\* The branch for type "state", lines 43-46
onState(data) ==
    /\ state' = data
    /\ sl' = textOf(state', "score_l")
    /\ sr' = textOf(state', "score_r")
    /\ noToast
    /\ UNCHANGED <<isAdmin, side, adminAuthBlock, adminControls>>

\* The branch for type "broadcast", lines 47-48
onBroadcast(data) ==
    /\ showToast(IF Truthy(Get(data, "message")) THEN data.message ELSE "")
    /\ UNCHANGED <<isAdmin, side, state, sl, sr, adminAuthBlock, adminControls>>

\* onAdminResult with a refusal that revokes the session
onAdminResultRevoke(data) ==
    /\ IF "ok" \in DOMAIN data /\ data.ok
       THEN /\ isAdmin' = TRUE
            /\ adminAuthBlock' = TRUE
            /\ adminControls' = FALSE
            /\ showToast("Admin unlocked")
       ELSE /\ isAdmin' = FALSE
            /\ showToast("Wrong admin code")
            /\ UNCHANGED <<adminAuthBlock, adminControls>>
    /\ UNCHANGED <<side, state, sl, sr>>

\* onAdminResult with a lockout: after a refusal no result unlocks
onAdminResultLockout(data) ==
    /\ IF "ok" \in DOMAIN data /\ data.ok /\ toast.text # "Wrong admin code"
       THEN /\ isAdmin' = TRUE
            /\ adminAuthBlock' = TRUE
            /\ adminControls' = FALSE
            /\ showToast("Admin unlocked")
       ELSE /\ showToast("Wrong admin code")
            /\ UNCHANGED <<isAdmin, adminAuthBlock, adminControls>>
    /\ UNCHANGED <<side, state, sl, sr>>

\* The branch for type "admin_result", lines 49-57
onAdminResult(data) ==
    /\ IF "ok" \in DOMAIN data /\ data.ok
       THEN /\ isAdmin' = TRUE
            /\ adminAuthBlock' = TRUE
            /\ adminControls' = FALSE
            /\ showToast("Admin unlocked")
       ELSE /\ showToast("Wrong admin code")
            /\ UNCHANGED <<isAdmin, adminAuthBlock, adminControls>>
    /\ UNCHANGED <<side, state, sl, sr>>

\* onEvent that also resumes the cached game
onEventResumes(data) ==
    /\ state' = Put(Put(state, "event", Get(data, "event")), "paused", FALSE)
    /\ showToast(IF Truthy(state'.event)
                 THEN "Event: " \o state'.event
                 ELSE "Events cleared")
    /\ UNCHANGED <<isAdmin, side, sl, sr, adminAuthBlock, adminControls>>

\* The branch for type "event", lines 58-61
onEvent(data) ==
    /\ state' = Put(state, "event", Get(data, "event"))
    /\ showToast(IF Truthy(state'.event)
                 THEN "Event: " \o state'.event
                 ELSE "Events cleared")
    /\ UNCHANGED <<isAdmin, side, sl, sr, adminAuthBlock, adminControls>>

\* dropFrame with a catch block that reports the frame
dropFrameReported ==
    /\ showToast("Bad message")
    /\ UNCHANGED <<isAdmin, side, state, sl, sr, adminAuthBlock, adminControls>>

\* A frame that throws inside the try (the empty catch of line 62) or that
\* matches no branch of lines 40-61 changes nothing.
dropFrame ==
    /\ noToast
    /\ UNCHANGED <<isAdmin, side, state, sl, sr, adminAuthBlock, adminControls>>

\* Message that sends the intent again after it has handled the frame
MessageResends(frame) ==
    /\ idle
    /\ conn = "open"
    /\ IF parseThrows(frame)
       THEN dropFrame
       ELSE LET data == frame.obj
                type == typeOf(frame)
            IN  CASE type = "role" -> onRole(data)
                  [] type = "state" -> onState(data)
                  [] type = "broadcast" -> onBroadcast(data)
                  [] type = "admin_result" -> onAdminResult(data)
                  [] type = "event" -> onEvent(data)
                  [] OTHER -> dropFrame
    /\ sent' = <<[type |-> "input",
                  up |-> intent(keys, side', Get(state', "event")).up,
                  down |-> intent(keys, side', Get(state', "event")).down]>>
    /\ last' = [op |-> "message", frame |-> frame]
    /\ UNCHANGED <<conn, keys, adminModal, broadcastMsg, frames, lastInput>>

\* The message listener, lines 37-63
Message(frame) ==
    /\ idle
    /\ conn = "open"
    /\ IF parseThrows(frame)
       THEN dropFrame
       ELSE LET data == frame.obj
                type == typeOf(frame)
            IN  CASE type = "role" -> onRole(data)
                  [] type = "state" -> onState(data)
                  [] type = "broadcast" -> onBroadcast(data)
                  [] type = "admin_result" -> onAdminResult(data)
                  [] type = "event" -> onEvent(data)
                  [] OTHER -> dropFrame
    /\ sent' = <<>>
    /\ last' = [op |-> "message", frame |-> frame]
    /\ UNCHANGED <<conn, keys, adminModal, broadcastMsg, frames, lastInput>>

-----------------------------------------------------------------------------
(* Admin UI: lines 109-144 *)

\* The closeAdmin click listener, line 113
CloseAdmin ==
    /\ idle
    /\ toggleAdmin(FALSE)
    /\ sent' = <<>>
    /\ last' = [op |-> "closeAdmin"]
    /\ noToast
    /\ UNCHANGED <<conn, isAdmin, side, state, sl, sr, keys, adminAuthBlock,
                   adminControls, broadcastMsg, frames, lastInput>>

\* The adminAuthBtn click listener, lines 115-118; value is adminCodeInput.value
AdminAuth(value) ==
    LET msgs == <<[type |-> "admin_auth", code |-> trim(value)]>>
    IN  /\ idle
        /\ sent' = calls(msgs)
        /\ last' = [op |-> "adminAuth", value |-> value]
        /\ noToast
        /\ UNCHANGED <<conn, isAdmin, side, state, sl, sr, keys, adminModal,
                       adminAuthBlock, adminControls, broadcastMsg, frames, lastInput>>

\* The user edits the broadcast field (no listener of the client runs)
EditBroadcast(value) ==
    /\ idle
    /\ broadcastMsg' = value
    /\ sent' = <<>>
    /\ last' = [op |-> "edit"]
    /\ noToast
    /\ UNCHANGED <<conn, isAdmin, side, state, sl, sr, keys, adminModal,
                   adminAuthBlock, adminControls, frames, lastInput>>

\* privileged without the guard on isAdmin
privilegedUnguarded(click, msg) ==
    /\ idle
    /\ noToast
    /\ sent' = calls(<<msg>>)
    /\ last' = click
    /\ UNCHANGED <<conn, isAdmin, side, state, sl, sr, keys, adminModal,
                   adminAuthBlock, adminControls, broadcastMsg, frames, lastInput>>

\* The listeners of the chips, pauseToggle and resetScores (lines 128-144):
\* the guard on isAdmin, then the one send.
privileged(click, msg) ==
    /\ idle
    /\ IF ~isAdmin
       THEN /\ showToast("Unlock admin first.")
            /\ sent' = <<>>
       ELSE /\ noToast
            /\ sent' = calls(<<msg>>)
    /\ last' = click
    /\ UNCHANGED <<conn, isAdmin, side, state, sl, sr, keys, adminModal,
                   adminAuthBlock, adminControls, broadcastMsg, frames, lastInput>>

\* Broadcast that clears the field before it tests isAdmin
BroadcastClearsFirst ==
    LET message == trim(broadcastMsg)
        msgs == <<[type |-> "admin", action |-> "broadcast", message |-> message]>>
    IN  /\ idle
        /\ IF message = <<>>
           THEN /\ noToast
                /\ sent' = <<>>
                /\ UNCHANGED broadcastMsg
           ELSE IF ~isAdmin
           THEN /\ showToast("Unlock admin first.")
                /\ sent' = <<>>
                /\ broadcastMsg' = <<>>
           ELSE /\ noToast
                /\ sent' = calls(msgs)
                /\ broadcastMsg' = <<>>
        /\ last' = [op |-> "broadcast", value |-> broadcastMsg]
        /\ UNCHANGED <<conn, isAdmin, side, state, sl, sr, keys, adminModal,
                       adminAuthBlock, adminControls, frames, lastInput>>

\* The broadcastBtn click listener, lines 120-126
Broadcast ==
    LET message == trim(broadcastMsg)
        msgs == <<[type |-> "admin", action |-> "broadcast", message |-> message]>>
    IN  /\ idle
        /\ IF message = <<>>
           THEN /\ noToast
                /\ sent' = <<>>
                /\ UNCHANGED broadcastMsg
           ELSE IF ~isAdmin
           THEN /\ showToast("Unlock admin first.")
                /\ sent' = <<>>
                /\ UNCHANGED broadcastMsg
           ELSE /\ noToast
                /\ sent' = calls(msgs)
                /\ broadcastMsg' = IF aborted(msgs) THEN broadcastMsg ELSE <<>>
        /\ last' = [op |-> "broadcast", value |-> broadcastMsg]
        /\ UNCHANGED <<conn, isAdmin, side, state, sl, sr, keys, adminModal,
                       adminAuthBlock, adminControls, frames, lastInput>>

\* A chip click listener, lines 128-134; ev is the chip's data-ev attribute
Chip(ev) ==
    privileged([op |-> "chip", tag |-> ev],
               [type |-> "admin", action |-> "event", event |-> ev])

\* The pauseToggle click listener, lines 136-139
PauseToggle ==
    privileged([op |-> "pauseToggle"], [type |-> "admin", action |-> "pause_toggle"])

\* The resetScores click listener, lines 141-144
ResetScores ==
    privileged([op |-> "resetScores"], [type |-> "admin", action |-> "reset_scores"])

-----------------------------------------------------------------------------
(* Renderer: draw, lines 153-191. It paints from state and asks for the next *)
(* frame; the canvas is not part of the model.                              *)

\* draw that asks for no further frame while the game is paused
drawStopsWhenPaused ==
    /\ idle
    /\ frames > 0
    /\ frames' = (frames - 1) + (IF "paused" \in DOMAIN state /\ state.paused THEN 0 ELSE 1)
    /\ sent' = <<>>
    /\ last' = [op |-> "draw"]
    /\ noToast
    /\ UNCHANGED <<conn, isAdmin, side, state, sl, sr, keys, adminModal,
                   adminAuthBlock, adminControls, broadcastMsg, lastInput>>

draw ==
    /\ idle
    /\ frames > 0
    /\ frames' = (frames - 1) + 1
    /\ sent' = <<>>
    /\ last' = [op |-> "draw"]
    /\ noToast
    /\ UNCHANGED <<conn, isAdmin, side, state, sl, sr, keys, adminModal,
                   adminAuthBlock, adminControls, broadcastMsg, lastInput>>

-----------------------------------------------------------------------------
(* The events the environment delivers *)

\* Values of a role message's side; "ghost" stands for one the client does
\* not know.
SideValues == {"left", "right", "spectator", "ghost"}

\* The event tags of the server and of the chips' data-ev attributes
EventTags == {"invert", "disco"}

\* Text a user types into an input field: blanks and letters
Texts == UNION {[1..n -> {" ", "a"}] : n \in 0..MaxText}

StateFields == {"type", "left_y", "right_y", "ball_x", "ball_y", "score_l",
                "score_r", "paused", "event", "w", "h"}

\* A state message with every field
fullState(n, p, e) ==
    [type |-> "state", left_y |-> n, right_y |-> n + 1, ball_x |-> n + 2,
     ball_y |-> n + 3, score_l |-> n, score_r |-> MaxScore - n, paused |-> p,
     event |-> e, w |-> 900, h |-> 600]

\* obj without the properties outside fields
only(obj, fields) == [f \in DOMAIN obj \cap fields |-> obj[f]]

\* State messages: complete ones, ones that omit event and paused, and one
\* that carries nothing but its type.
StateMsgs ==
    { only(fullState(n, p, e), fs) :
        n \in 0..MaxScore, p \in BOOLEAN, e \in EventTags \cup {Null},
        fs \in {StateFields, StateFields \ {"event", "paused"}, {"type"}} }

RoleMsgs == {[type |-> "role", side |-> s] : s \in SideValues} \cup {[type |-> "role"]}

BroadcastMsgs == {[type |-> "broadcast", message |-> "hi"], [type |-> "broadcast"]}

AdminResultMsgs ==
    {[type |-> "admin_result", ok |-> b] : b \in BOOLEAN} \cup {[type |-> "admin_result"]}

EventMsgs ==
    {[type |-> "event", event |-> e] : e \in EventTags \cup {Null}} \cup {[type |-> "event"]}

\* Frames that are not JSON or carry no type the client knows
Malformed ==
    {NotJson, JsonNull, JsonObject([type |-> "bogus"]), JsonObject([side |-> "left"])}

Frames ==
    Malformed \cup
    { JsonObject(o) :
        o \in RoleMsgs \cup StateMsgs \cup BroadcastMsgs \cup AdminResultMsgs \cup EventMsgs }

-----------------------------------------------------------------------------
(* The client *)

Init ==
    /\ conn = "connecting"
    /\ isAdmin = FALSE
    /\ side = "spectator"
    /\ state = [left_y |-> 245, right_y |-> 245, ball_x |-> 443, ball_y |-> 293,
                score_l |-> 0, score_r |-> 0, paused |-> FALSE, event |-> Null,
                w |-> 900, h |-> 600]
    /\ sl = "0"
    /\ sr = "0"
    /\ keys = {}
    /\ adminModal = TRUE
    /\ adminAuthBlock = FALSE
    /\ adminControls = TRUE
    /\ broadcastMsg = <<>>
    /\ toast = [text |-> "", show |-> FALSE]
    /\ timers = {}
    /\ toastAge = ToastMs
    /\ frames = 1
    /\ sent = <<>>
    /\ last = [op |-> "idle"]
    /\ lastInput = NoInput

\* One step of the client: any listener, on an event drawn from the given
\* key codes, inbound frames, typed texts and chip tags, with the clock
\* advancing in the given steps.
ListenOn(codes, frms, texts, tags, steps) ==
    \/ Open
    \/ Close
    \/ \E f \in frms : Message(f)
    \/ \E c \in codes : KeyDown(c)
    \/ \E c \in codes : KeyUp(c)
    \/ CloseAdmin
    \/ \E t \in texts : AdminAuth(t)
    \/ \E t \in texts : EditBroadcast(t)
    \/ Broadcast
    \/ \E e \in tags : Chip(e)
    \/ PauseToggle
    \/ ResetScores
    \/ HideToast
    \/ \E d \in steps : Tick(d)
    \/ draw

\* One step of the client, or the return to the event loop
NextOn(codes, frms, texts, tags, steps) ==
    \/ ListenOn(codes, frms, texts, tags, steps)
    \/ Return

objects(msgs) == {JsonObject(o) : o \in msgs}

\* The client over every event set of the model at once has more states than
\* can be enumerated. Each specification below runs every listener and takes
\* one part of the events in full, the other parts narrowed.

\* The Input Mapper: every key code, side and event tag.
InputFrames ==
    {NotJson} \cup
    objects(RoleMsgs
            \cup {[type |-> "event", event |-> "invert"], [type |-> "state"]}
            \cup {fullState(0, FALSE, e) : e \in EventTags \cup {Null}})

Next == NextOn(KeyCodes, InputFrames, {<<>>}, {"invert"}, {ToastMs})

Spec == Init /\ [][Next]_vars

\* Stale intent: the keys of one paddle and Tab, every side, invert on and
\* off, with the last input message sent kept in lastInput.
IntentFrames ==
    objects(RoleMsgs
            \cup {[type |-> "event", event |-> e] : e \in {"invert", Null}}
            \cup {fullState(0, FALSE, e) : e \in {"invert", Null}})

NextIntent ==
    \/ ListenOn({"KeyW", "KeyS", "Tab"}, IntentFrames, {<<>>}, {"invert"}, {ToastMs})
    \/ ReturnNoting

SpecIntent == Init /\ [][NextIntent]_vars

\* The Admin Session: every privileged action, typed text and auth result.
AdminFrames ==
    {NotJson} \cup
    objects(AdminResultMsgs \cup RoleMsgs
            \cup {[type |-> "state"], [type |-> "event", event |-> "invert"],
                  [type |-> "broadcast", message |-> "hi"]})

NextAdmin == NextOn({"KeyP", "Tab"}, AdminFrames, Texts, EventTags, {ToastMs})

SpecAdmin == Init /\ [][NextAdmin]_vars

\* The Authoritative State Cache: every inbound frame of the model.
NextSync == NextOn({"KeyW"}, Frames, {<<>>}, {"invert"}, {ToastMs})

SpecSync == Init /\ [][NextSync]_vars

\* The Notification Surface: the clock in half delays.
ToastFrames ==
    {NotJson} \cup
    objects(BroadcastMsgs 
            \cup {[type |-> "role", side |-> "left"], [type |-> "state"],
                  [type |-> "admin_result", ok |-> FALSE], [type |-> "event"]})

NextToast == NextOn({"KeyP", "Tab"}, ToastFrames, {<<>>}, {"invert"}, {ToastMs \div 2})

SpecToast == Init /\ [][NextToast]_vars

-----------------------------------------------------------------------------
(* Properties *)

\* The messages of one type among the calls of the listener that has just run
ofType(t) == {i \in DOMAIN sent : sent[i].type = t}

ranKey == last.op \in {"keydown", "keyup"}

\* The last listener was the message listener, on a JSON object of type t
ranMessage(t) ==
    /\ last.op = "message"
    /\ last.frame.json = "object"
    /\ Get(last.frame.obj, "type") = t

\* The truth table of section 4.2, without inversion
tableUp(ks, sd) ==
    CASE sd = "left" -> "KeyW" \in ks
      [] sd = "right" -> "ArrowUp" \in ks
      [] OTHER -> "ArrowUp" \in ks \/ "KeyW" \in ks

tableDown(ks, sd) ==
    CASE sd = "left" -> "KeyS" \in ks
      [] sd = "right" -> "ArrowDown" \in ks
      [] OTHER -> "ArrowDown" \in ks \/ "KeyS" \in ks

\* The input message the truth table asks for in the current state
tableMsg ==
    LET inv == Get(state, "event") = "invert"
    IN  [type |-> "input",
         up |-> IF inv THEN tableDown(keys, side) ELSE tableUp(keys, side),
         down |-> IF inv THEN tableUp(keys, side) ELSE tableDown(keys, side)]

\* C1: every input message a key listener passes to ws.send carries the
\* {up, down} of the section 4.2 truth table for the key set, the side and
\* state.event as they are when the listener runs, whatever happened before.
C1_TruthTable ==
    ranKey => \A i \in ofType("input") : sent[i] = tableMsg

\* C1: the side is right, the event is invert, ArrowDown alone is held and the
\* keydown listener has sent {up: true, down: false}.
C1_Witness ==
    /\ last.op = "keydown"
    /\ side = "right"
    /\ Get(state, "event") = "invert"
    /\ keys = {"ArrowDown"}
    /\ sent = <<[type |-> "input", up |-> TRUE, down |-> FALSE]>>

\* C2 as stated: every key-down and every key-up, for any key, is followed by
\* exactly one input message before the next event is handled.
C2_Original ==
    ranKey => Cardinality(ofType("input")) = 1

\* A key-down that never reaches sendInput: Tab, which returns at line 75, and
\* KeyP while the socket is connecting, whose pause send throws at line 80.
skipsInput ==
    /\ last.op = "keydown"
    /\ \/ last.code = "Tab"
       \/ last.code = "KeyP" /\ conn = "connecting"

\* C2 amended: every key-up, and every key-down but those two, passes exactly
\* one input message to ws.send, as the listener's last call, before the next
\* event is handled; the two exceptions pass none.
C2_Amended ==
    ranKey =>
        IF skipsInput
        THEN ofType("input") = {}
        ELSE /\ Cardinality(ofType("input")) = 1
             /\ sent[Len(sent)] = tableMsg

\* C2: a spectator's key-up has sent its one input message.
C2_Witness ==
    /\ last.op = "keyup"
    /\ side = "spectator"
    /\ conn = "open"
    /\ keys # {}
    /\ Len(sent) = 1 /\ sent[1].type = "input"

\* C3: a key-down of KeyP that was not held sends exactly one pause message;
\* a key-up, and every listener run other than a KeyP key-down, sends none.
C3_PauseOncePerPress ==
    /\ (last.op = "keydown" /\ last.code = "KeyP" /\ ~last.held)
            => Cardinality(ofType("pause")) = 1
    /\ last.op = "keyup" => ofType("pause") = {}
    /\ ~(last.op = "keydown" /\ last.code = "KeyP") => ofType("pause") = {}

\* C3: an unlocked admin on the right side, under the invert event, has
\* pressed KeyP and one pause message was sent.
C3_Witness ==
    /\ last.op = "keydown" /\ last.code = "KeyP" /\ ~last.held
    /\ isAdmin
    /\ side = "right"
    /\ Get(state, "event") = "invert"
    /\ sent[1] = PauseMsg

\* C4: right after a state message is handled, state has exactly the fields of
\* the message, each with the message's value.
C4_StateReplaced ==
    ranMessage("state") =>
        /\ DOMAIN state = DOMAIN last.frame.obj
        /\ \A f \in DOMAIN state : state[f] = last.frame.obj[f]

\* C4: a state message without event and paused was handled, and neither
\* field is left in state.
C4_Witness ==
    /\ ranMessage("state")
    /\ "score_l" \in DOMAIN last.frame.obj
    /\ "event" \notin DOMAIN last.frame.obj
    /\ "event" \notin DOMAIN state /\ "paused" \notin DOMAIN state

\* The last listener was the click listener of a privileged action
adminClick == last.op \in {"broadcast", "chip", "pauseToggle", "resetScores"}

\* The admin message of the action just clicked, in the envelope of section 4.5
adminMsg ==
    CASE last.op = "broadcast" ->
            [type |-> "admin", action |-> "broadcast", message |-> trim(last.value)]
      [] last.op = "chip" ->
            [type |-> "admin", action |-> "event", event |-> last.tag]
      [] last.op = "pauseToggle" -> [type |-> "admin", action |-> "pause_toggle"]
      [] last.op = "resetScores" -> [type |-> "admin", action |-> "reset_scores"]

\* C5 as stated: an admin message is passed to ws.send only if isAdmin is true,
\* and once it is true each action click passes exactly one, shaped for its
\* action.
C5_Original ==
    /\ ofType("admin") # {} => isAdmin
    /\ (adminClick /\ isAdmin) => sent = <<adminMsg>>

\* C5 amended: an admin message is passed to ws.send only by an action click
\* made while isAdmin is true; while it is false a click passes nothing; once
\* it is true each click passes exactly one message shaped for its action,
\* but for a broadcast click whose text is empty after trimming, which passes
\* none.
C5_Amended ==
    /\ ofType("admin") # {} => (isAdmin /\ adminClick)
    /\ (adminClick /\ ~isAdmin) => sent = <<>>
    /\ (adminClick /\ isAdmin) =>
          IF last.op = "broadcast" /\ trim(last.value) = <<>>
          THEN sent = <<>>
          ELSE sent = <<adminMsg>>

\* C5: an unlocked admin has clicked broadcast on a text with blanks around it
\* and the trimmed text was sent.
C5_Witness ==
    /\ isAdmin
    /\ last.op = "broadcast"
    /\ last.value # trim(last.value)
    /\ sent = <<[type |-> "admin", action |-> "broadcast", message |-> <<"a">>]>>

\* C6 as stated: a privileged action clicked while locked sends nothing and
\* shows the notification "Unlock admin first.", whatever the input.
C6_Original ==
    (adminClick /\ ~isAdmin) =>
        /\ sent = <<>>
        /\ toast = [text |-> "Unlock admin first.", show |-> TRUE]
        /\ toastAge = 0

\* The last listener handled an admin_result message whose ok is true
accepted ==
    /\ ranMessage("admin_result")
    /\ "ok" \in DOMAIN last.frame.obj /\ last.frame.obj.ok

\* The last listener handled an admin_result message whose ok is not true
refused == ranMessage("admin_result") /\ ~accepted

\* C7: isAdmin starts false, turns true only in the message listener on an
\* admin_result with ok true, and never turns false again.
C7_OnceAdminAlways ==
    /\ ~isAdmin
    /\ [][/\ isAdmin => isAdmin'
          /\ (~isAdmin /\ isAdmin') => accepted']_vars

\* C7: the session is unlocked although the message just handled is an
\* admin_result with ok false.
C7_Witness ==
    /\ isAdmin
    /\ refused
    /\ toast.text = "Wrong admin code"

\* C8: a refusal received while locked leaves isAdmin false and shows "Wrong
\* admin code"; every click on the auth button, after any history, sends one
\* admin_auth message with the trimmed code; an acceptance sets isAdmin.
C8_RetryUnlocks ==
    [][/\ (~isAdmin /\ refused') =>
              /\ ~isAdmin'
              /\ toast' = [text |-> "Wrong admin code", show |-> TRUE]
       /\ last'.op = "adminAuth" =>
              sent' = <<[type |-> "admin_auth", code |-> trim(last'.value)]>>
       /\ accepted' => isAdmin']_vars

\* C8: after a refusal, still locked, the code has been submitted again.
C8_Witness ==
    /\ ~isAdmin
    /\ toast.text = "Wrong admin code"
    /\ last.op = "adminAuth"
    /\ sent = <<[type |-> "admin_auth", code |-> <<"a">>]>>

\* C9 as stated: the toast is hidden no sooner than ToastMs after the most
\* recent showToast call.
C9_Original ==
    last.op = "timeout" => toastAge >= ToastMs

\* C10: the message listener, given a frame that is not JSON or has no known
\* type, leaves side, state, isAdmin, keys, the score labels and the toast as
\* they were, sends nothing and leaves the connection open.
C10_MalformedDropped ==
    [][(last'.op = "message" /\ last'.frame \in Malformed) =>
          /\ UNCHANGED <<side, state, isAdmin, keys, sl, sr, toast, timers>>
          /\ sent' = <<>>
          /\ conn' = "open"]_vars

\* C10: a JSON object of an unknown type was handled by an unlocked admin on
\* the left side while a notification is on screen.
C10_Witness ==
    /\ last.op = "message"
    /\ last.frame = JsonObject([type |-> "bogus"])
    /\ side = "left" /\ isAdmin
    /\ toast.show /\ toastAge = 0
    /\ conn = "open"

\* C11: the close listener shows "Disconnected from server" and leaves the
\* socket closed; a closed socket stays closed under every later step; a key
\* event handled after the close updates keys and runs to its end (its
\* ws.send calls return, the last of them sendInput's) without an exception.
C11_CloseIsTerminal ==
    [][/\ conn = "closed" => conn' = "closed"
       /\ last'.op = "close" =>
              /\ conn' = "closed"
              /\ toast' = [text |-> "Disconnected from server", show |-> TRUE]
       /\ (conn = "closed" /\ last'.op = "keydown" /\ last'.code # "Tab") =>
              /\ keys' = keys \cup {last'.code}
              /\ ~threw'
              /\ sent'[Len(sent')].type = "input"
       /\ (conn = "closed" /\ last'.op = "keyup") =>
              /\ keys' = keys \ {last'.code}
              /\ ~threw'
              /\ sent'[Len(sent')].type = "input"]_vars

\* C11: after the close, KeyW was pressed: it is held and its input message
\* was passed to ws.send.
C11_Witness ==
    /\ conn = "closed"
    /\ last.op = "keydown" /\ last.code = "KeyW"
    /\ "KeyW" \in keys
    /\ sent = <<[type |-> "input", up |-> TRUE, down |-> FALSE]>>

\* C12 as stated: state changes only when a state message is handled; no
\* other message, key event, click or timer alters it.
C12_Original ==
    [][state' # state => ranMessage("state")']_vars

\* C12 amended: state changes only when a state message is handled, which
\* replaces it by the message, or when an event message is handled, which
\* assigns the message's event to state.event and leaves every other field
\* as it was; no other message, key event, click, timer or frame alters it.
C12_Amended ==
    [][state' # state =>
          \/ ranMessage("state")' /\ state' = last'.frame.obj
          \/ /\ ranMessage("event")'
             /\ DOMAIN state' = DOMAIN state \cup {"event"}
             /\ state'.event = Get(last'.frame.obj, "event")
             /\ \A f \in DOMAIN state \ {"event"} : state'[f] = state[f]]_vars

\* C12: an event message was handled on a snapshot that came from a state
\* message without an event field; the field is now there, beside the
\* snapshot's scores.
C12_Witness ==
    /\ ranMessage("event")
    /\ "paused" \notin DOMAIN state
    /\ "score_l" \in DOMAIN state /\ state.score_l = MaxScore
    /\ "event" \in DOMAIN state /\ state.event = "disco"

\* C13 as stated: every role message makes side the message's side value and
\* shows the role notification "You are: SIDE"; a side value other than left
\* and right is kept as it is, and the input messages sent while it is the
\* side are those of a spectator.
C13_Original ==
    [][/\ ranMessage("role")' =>
              /\ side' = Get(last'.frame.obj, "side")
              /\ toast' = [text |-> "You are: " \o toUpperCase(side'), show |-> TRUE]
              /\ ToastMs \in timers'
       /\ (ranKey' /\ side \notin {"left", "right"}) =>
              \A i \in ofType("input")' :
                  sent'[i] = [type |-> "input",
                              up |-> intent(keys', "spectator", Get(state, "event")).up,
                              down |-> intent(keys', "spectator", Get(state, "event")).down]]_vars

\* C14: a broadcast click passes a message to ws.send only if the field's
\* value is not empty after trimming and isAdmin is true; the message is then
\* the one admin broadcast message with the trimmed value; and the field
\* differs from what it held at the click only if that send was made and
\* returned, in which case it is empty.
C14_BroadcastSubmit ==
    last.op = "broadcast" =>
        /\ sent # <<>> =>
              /\ trim(last.value) # <<>>
              /\ isAdmin
              /\ sent = <<[type |-> "admin", action |-> "broadcast",
                           message |-> trim(last.value)]>>
        /\ broadcastMsg # last.value =>
              /\ broadcastMsg = <<>>
              /\ sent # <<>>
              /\ ~threw

\* C14: the field held " a" at the click; "a" was sent and the field is empty.
C14_Witness ==
    /\ last.op = "broadcast"
    /\ last.value = <<" ", "a">>
    /\ sent = <<[type |-> "admin", action |-> "broadcast", message |-> <<"a">>]>>
    /\ broadcastMsg = <<>>

\* C15: when the message listener has handled a state message, and before
\* anything else runs, the left label shows score_l and the right label
\* score_r of the new state, as decimal text (an absent score shows as the
\* empty text); no step other than the handling of a state message changes
\* either label.
C15_ScoreLabels ==
    [][/\ ranMessage("state")' =>
              /\ sl' = IF "score_l" \in DOMAIN state'
                       THEN ToString(state'.score_l) ELSE ""
              /\ sr' = IF "score_r" \in DOMAIN state'
                       THEN ToString(state'.score_r) ELSE ""
       /\ (sl' # sl \/ sr' # sr) => ranMessage("state")']_vars

\* C15: a state message with score_r = MaxScore was handled after keys were
\* pressed; the right label shows it.
C15_Witness ==
    /\ ranMessage("state")
    /\ keys # {}
    /\ "score_r" \in DOMAIN state /\ state.score_r = MaxScore
    /\ sr = ToString(MaxScore)

\* C16: a render frame, wherever it falls among the other events, passes
\* nothing to ws.send, leaves keys, side, state and isAdmin as they were, and
\* leaves one frame request pending; so a frame request is pending in every
\* state.
C16_DrawReadOnly ==
    /\ frames = 1
    /\ [][/\ last'.op = "draw" =>
                 /\ sent' = <<>>
                 /\ UNCHANGED <<keys, side, state, isAdmin>>
                 /\ frames' = 1
          /\ frames = 1 => frames' = 1]_vars

\* C16: a frame was painted while KeyW is held, the cached game is paused
\* with the disco event on, and the next frame is requested.
C16_Witness ==
    /\ last.op = "draw"
    /\ keys = {"KeyW"}
    /\ "paused" \in DOMAIN state /\ state.paused
    /\ Get(state, "event") = "disco"
    /\ frames = 1

\* C17 as stated: the message listener passes nothing to ws.send; lastInput
\* changes only when a key listener returns; and once an input message has
\* been sent, lastInput is, after every key listener's return, the input
\* message of the truth table for the keys, side and state.event of that
\* moment.
C17_Original ==
    [][/\ last'.op = "message" => sent' = <<>>
       /\ (idle' /\ ~ranKey) => lastInput' = lastInput
       /\ (idle' /\ ranKey /\ lastInput.type = "input") =>
              lastInput' = tableMsg']_vars

\* The last listener was the keydown listener on Tab
tabDown == last.op = "keydown" /\ last.code = "Tab"

\* C17 amended: the message listener passes nothing to ws.send, whatever the
\* frame; lastInput changes only when a key listener returns, so after a
\* role, state or event message it is still the message computed before;
\* after the return of a key-up or of a key-down other than Tab's on a
\* socket that is not connecting, lastInput is the input message of the
\* truth table for the keys, side and state.event of that moment; a Tab
\* key-down leaves lastInput as it was.
C17_Amended ==
    [][/\ last'.op = "message" => sent' = <<>>
       /\ (idle' /\ ~ranKey) => lastInput' = lastInput
       /\ (idle' /\ ranKey /\ ~tabDown /\ conn # "connecting") =>
              lastInput' = tableMsg'
       /\ (idle' /\ tabDown) => lastInput' = lastInput]_vars

\* C17: KeyW is held and {up: true} was sent for a spectator; a role message
\* has made the side right, for which the intent is {up: false}; nothing was
\* sent and the last input message is still {up: true}.
C17_Witness ==
    /\ ranMessage("role")
    /\ side = "right"
    /\ keys = {"KeyW"}
    /\ sent = <<>>
    /\ lastInput = [type |-> "input", up |-> TRUE, down |-> FALSE]
    /\ tableMsg = [type |-> "input", up |-> FALSE, down |-> FALSE]

\* C18: keys never holds Tab. A key-down of any other code puts that code in
\* keys, a key-up of any code takes it out, and every other step leaves keys
\* alone: so a code other than Tab is in keys exactly when its most recent
\* key event was a key-down. A Tab key-down shows the admin modal and does
\* nothing else: keys is unchanged and nothing is passed to ws.send. A Tab
\* key-up passes one input message to ws.send.
C18_KeySet ==
    /\ []("Tab" \notin keys)
    /\ [][/\ (last'.op = "keydown" /\ last'.code # "Tab") =>
                 keys' = keys \cup {last'.code}
          /\ last'.op = "keyup" => keys' = keys \ {last'.code}
          /\ ~ranKey' => keys' = keys
          /\ (last'.op = "keydown" /\ last'.code = "Tab") =>
                 /\ adminModal' = FALSE
                 /\ sent' = <<>>
                 /\ UNCHANGED <<conn, isAdmin, side, state, sl, sr, keys,
                                adminAuthBlock, adminControls, broadcastMsg,
                                toast, timers, toastAge, frames>>
          /\ (last'.op = "keyup" /\ last'.code = "Tab") =>
                 sent' = <<tableMsg'>>]_vars

\* C18: Tab was released after it opened the modal, while KeyW is held; the
\* key-up has sent the input message for KeyW and keys holds KeyW alone.
C18_Witness ==
    /\ last.op = "keyup" /\ last.code = "Tab"
    /\ adminModal = FALSE
    /\ keys = {"KeyW"}
    /\ sent = <<[type |-> "input", up |-> TRUE, down |-> FALSE]>>

\* The last listener handled a state message or an event message
wroteEvent == ranMessage("state") \/ ranMessage("event")

\* C19: state.event is null at the start; handling a state or an event
\* message makes it that message's event (undefined when the message has
\* none), whatever it was; no other step changes it: so it is always the
\* event of the most recently handled of those messages. Every input message
\* a key listener sends is inverted exactly when state.event is "invert" at
\* that moment.
C19_LastWriteWins ==
    /\ Get(state, "event") = Null
    /\ [][/\ wroteEvent' => Get(state', "event") = Get(last'.frame.obj, "event")
          /\ ~wroteEvent' => Get(state', "event") = Get(state, "event")
          /\ ranKey' =>
                 \A i \in ofType("input")' :
                     /\ sent'[i].up = IF Get(state', "event") = "invert"
                                      THEN tableDown(keys', side')
                                      ELSE tableUp(keys', side')
                     /\ sent'[i].down = IF Get(state', "event") = "invert"
                                        THEN tableUp(keys', side')
                                        ELSE tableDown(keys', side')]_vars

\* C19: an event message set invert (its notification is still the toast's
\* text), a later state message carried event null, and the key-down of KeyW
\* that followed sent {up: true}, not inverted.
C19_Witness ==
    /\ last.op = "keydown" /\ last.code = "KeyW"
    /\ toast.text = "Event: invert"
    /\ Get(state, "event") = Null
    /\ side = "spectator"
    /\ sent = <<[type |-> "input", up |-> TRUE, down |-> FALSE]>>

=============================================================================
